---- MODULE Spec2Model ----
(***************************************************************************)
(* hg-bz-prune: a model of src/main.rs.                                    *)
(*                                                                         *)
(* main() starts `hg pull` in the background, lists the draft revisions,   *)
(* asks Bugzilla about the bug named in each revision's subject, collects  *)
(* (revision, landed hash) pairs in `prunable`, waits for the pull, and    *)
(* then asks the operator about every pair and runs `hg prune`.            *)
(*                                                                         *)
(* Text is modelled as sequences of one-character strings so that trim,    *)
(* starts_with, split and the character tests are computed, not assumed.   *)
(***************************************************************************)
EXTENDS Integers, Sequences, FiniteSets, TLC

VARIABLES
    pc,         \* position of main(): start, log, resolve, details, comments,
                \*   await_pull, confirm, prompt, prune, done, error
    err,        \* which `?` / bail! ended main() with Err ("none" while running)
    pull,       \* the background `hg pull`: none, running, spawn_err, ok,
                \*   failed, failed_nonutf8
    revs,       \* Vec<Revision> parsed from `hg log`
    i,          \* position of `for rev in &revs`
    details,    \* result of bug.details() of the current iteration
    comments,   \* result of bug.comments() of the current iteration
    response,   \* the latest exchange with the tracker: what was asked
                \*   (details or comments, of which bug) and the reply
    prunable,   \* Vec<(&Revision, String)>
    cur,        \* position of `for (local, remote) in prunable`
    buffer,     \* the String handed to read_line
    lastLine,   \* Some(what the latest read_line appended), None before it
    pruneCalls, \* the `hg prune` commands spawned so far, with their outcome
    out         \* the notable lines printed so far

vars == <<pc, err, pull, revs, i, details, comments, response, prunable, cur,
          buffer, lastLine, pruneCalls, out>>

-----------------------------------------------------------------------------
(* Bounds of the model *)

MaxRevs == 2        \* revisions returned by `hg log`
MaxComments == 2    \* comments in one bug's discussion
MaxBuf == 4         \* characters the operator types in one run

-----------------------------------------------------------------------------
(* Text helpers *)

\* char::is_whitespace, on the characters the model uses
IsWhitespace(c) == c \in {" ", "\n", "\t", "\r"}

\* char::is_ascii_alphanumeric, taken for the hex test
IsAsciiAlphanumeric(c) ==
    c \in {"0", "1", "2", "3", "4", "5", "6", "7", "8", "9",
           "a", "b", "c", "d", "e", "f", "g", "h", "i", "j", "k", "l", "m",
           "n", "o", "p", "q", "r", "s", "t", "u", "v", "w", "x", "y", "z",
           "A", "B", "C", "D", "E", "F", "G", "H", "I", "J", "K", "L", "M",
           "N", "O", "P", "Q", "R", "S", "T", "U", "V", "W", "X", "Y", "Z"}

\* char::is_ascii_hexdigit
IsAsciiHexdigit(c) ==
    c \in {"0", "1", "2", "3", "4", "5", "6", "7", "8", "9",
           "a", "b", "c", "d", "e", "f", "A", "B", "C", "D", "E", "F"}

\* str::to_lowercase, on the letters the model uses
ToLowerChar(c) ==
    CASE c = "B" -> "b"
      [] c = "U" -> "u"
      [] c = "G" -> "g"
      [] c = "F" -> "f"
      [] c = "X" -> "x"
      [] OTHER -> c

to_lowercase(s) == [k \in 1..Len(s) |-> ToLowerChar(s[k])]

RECURSIVE TrimStart(_)
TrimStart(s) ==
    IF s = <<>> THEN <<>>
    ELSE IF IsWhitespace(Head(s)) THEN TrimStart(Tail(s))
    ELSE s

RECURSIVE TrimEnd(_)
TrimEnd(s) ==
    IF s = <<>> THEN <<>>
    ELSE IF IsWhitespace(s[Len(s)]) THEN TrimEnd(SubSeq(s, 1, Len(s) - 1))
    ELSE s

\* str::trim: leading and trailing whitespace removed, the inside untouched
trim(s) == TrimEnd(TrimStart(s))

\* str::starts_with
starts_with(s, p) == Len(s) >= Len(p) /\ SubSeq(s, 1, Len(p)) = p

\* the pieces of s between occurrences of the character sep (str::split)
RECURSIVE SplitOn(_, _, _)
SplitOn(s, sep, acc) ==
    IF s = <<>> THEN <<acc>>
    ELSE IF Head(s) = sep THEN <<acc>> \o SplitOn(Tail(s), sep, <<>>)
    ELSE SplitOn(Tail(s), sep, Append(acc, Head(s)))

split(s, sep) == SplitOn(s, sep, <<>>)

\* str::split_whitespace: the non-empty runs of non-whitespace characters
RECURSIVE SplitWs(_, _)
SplitWs(s, acc) ==
    IF s = <<>> THEN (IF acc = <<>> THEN <<>> ELSE <<acc>>)
    ELSE IF IsWhitespace(Head(s))
         THEN (IF acc = <<>> THEN <<>> ELSE <<acc>>) \o SplitWs(Tail(s), <<>>)
    ELSE SplitWs(Tail(s), Append(acc, Head(s)))

split_whitespace(s) == SplitWs(s, <<>>)

Last(s) == s[Len(s)]

\* Option<T>
None == [some |-> FALSE]
Some(v) == [some |-> TRUE, val |-> v]

\* Result<T>
Ok(v) == [ok |-> TRUE, val |-> v]
Err(e) == [ok |-> FALSE, err |-> e]

\* a local that holds no value (not yet assigned, or out of scope)
Unset == [unset |-> TRUE]

-----------------------------------------------------------------------------
(* Revisions (struct Revision) *)

\* Revision::header: the first line of the description
header(rev) == Some(split(rev.desc, "\n")[1])

\* Revision::bug without the test of the first word
bug_any_first_word(rev) ==
    LET words == split_whitespace(header(rev).val)
    IN  IF Len(words) >= 2 THEN Some(words[2]) ELSE None

\* Revision::bug: the word after a leading "bug" (any case) in the header
bug(rev) ==
    LET words == split_whitespace(header(rev).val)
    IN  IF words = <<>> THEN None
        ELSE IF to_lowercase(words[1]) = <<"b", "u", "g">>
             THEN (IF Len(words) >= 2 THEN Some(words[2]) ELSE None)
        ELSE None

\* descriptions the listing can return
DescBug42 == <<"B", "u", "g", " ", "4", "2", " ", "f", "i", "x">>
DescBugOnly == <<"B", "U", "G">>
DescNoBug == <<"f", "i", "x", " ", "4", "2", "\n", "b", "u", "g", " ", "7">>

Descs == {DescBug42, DescBugOnly, DescNoBug}

\* a subject that writes the bug number with a colon: "Bug 42: fix thing"
DescBug42Colon ==
    <<"B", "u", "g", " ", "4", "2", ":", " ", "f", "i", "x", " ",
      "t", "h", "i", "n", "g">>

\* the lists `hg log` can return: at most MaxRevs revisions, each changeset
\* once (node k stands for the k-th distinct 40-digit hash)
RevLists(descs) ==
    UNION {[1..n -> descs] : n \in 0..MaxRevs}

MkRevs(ds) == [k \in 1..Len(ds) |-> [node |-> k, desc |-> ds[k]]]

-----------------------------------------------------------------------------
(* Bugzilla (ApiBug, BugDetail, BugStatus, Comment) *)

\* enum BugStatus with rename_all = "UPPERCASE": the strings serde accepts
BugStatus == {"RESOLVED", "VERIFIED"}

\* status strings the tracker can send
TrackerStatuses == {"RESOLVED", "VERIFIED", "NEW", "ASSIGNED"}

\* what a GET of /bug/<id> can come to: no response, a body that is not the
\* expected JSON, or {"bugs": [{"status": s}, ...]}
DetailsResponses ==
    {[kind |-> "transport"],
     [kind |-> "malformed"],
     [kind |-> "body", bugs |-> <<>>]}
    \cup {[kind |-> "body", bugs |-> <<s>>] : s \in TrackerStatuses}

\* ApiBug::details: send, deserialize ApiListResponse<BugDetail>, pop
ApiBug_details(resp) ==
    IF resp.kind = "transport" THEN Err("http")
    ELSE IF resp.kind = "malformed" THEN Err("json")
    ELSE IF \E k \in 1..Len(resp.bugs) : resp.bugs[k] \notin BugStatus
         THEN Err("json")
    ELSE IF resp.bugs = <<>> THEN Err("no bugs in response")
    ELSE Ok([status |-> Last(resp.bugs)])

LandingPrefix ==
    <<"h", "t", "t", "p", "s", ":", "/", "/", "h", "g", ".",
      "m", "o", "z", "i", "l", "l", "a", ".", "o", "r", "g",
      "/", "m", "o", "z", "i", "l", "l", "a", "-", "c", "e",
      "n", "t", "r", "a", "l", "/", "r", "e", "v", "/">>

\* comment texts a discussion can hold
TextLandA == LandingPrefix \o <<"a", "1">>
TextLandB == LandingPrefix \o <<"b", "2">>
TextLandNonHex == LandingPrefix \o <<"z", "z">>
TextOther == <<"o", "k">>

\* a landing URL with a twelve-digit hash, and one cut off after "/rev/"
TextLandCafe ==
    LandingPrefix \o <<"d", "e", "a", "d", "b", "e", "e", "f", "c", "a", "f", "e">>
TextLandTruncated == LandingPrefix

\* discussions in chronological order: at most MaxComments comments
MkComments(ts) == [k \in 1..Len(ts) |-> [id |-> k, raw_text |-> ts[k]]]

Discussions(texts) ==
    {MkComments(ts) : ts \in UNION {[1..n -> texts] : n \in 0..MaxComments}}

\* an id the tracker may answer about instead of the requested one
OtherBugId == <<"9">>

\* the id under which the tracker keeps bug 42
Issue42 == <<"4", "2">>

\* what a GET of /bug/<id>/comment can come to: no response, a body that is
\* not the expected JSON, or {"bugs": {<key>: {"comments": [...]}}}
CommentsResponses(id, texts) ==
    {[kind |-> "transport"],
     [kind |-> "malformed"],
     [kind |-> "body", bugs |-> <<>>],
     [kind |-> "body", bugs |-> [k \in {OtherBugId} |-> <<>>]]}
    \cup {[kind |-> "body", bugs |-> [k \in {key} |-> d]] :
             key \in {id, Issue42}, d \in Discussions(texts)}

\* ApiBug::comments: send, deserialize ApiMapResponse<BugComments>, remove(id)
ApiBug_comments(id, resp) ==
    IF resp.kind = "transport" THEN Err("http")
    ELSE IF resp.kind = "malformed" THEN Err("json")
    ELSE IF id \notin DOMAIN resp.bugs THEN Err("requested bug not in response")
    ELSE Ok(resp.bugs[id])

\* main.rs 74-84: one pair per comment that starts with the landing prefix and
\* whose text after the last '/' is all hex digits, in the order of the list
RECURSIVE ScanComments(_, _)
ScanComments(rev, cs) ==
    IF cs = <<>> THEN <<>>
    ELSE LET raw_text == Head(cs).raw_text
             hash == Last(split(raw_text, "/"))
             found == /\ starts_with(raw_text, LandingPrefix)
                      /\ \A k \in 1..Len(hash) : IsAsciiHexdigit(hash[k])
         IN  (IF found THEN <<[local |-> rev, remote |-> hash]>> ELSE <<>>)
             \o ScanComments(rev, Tail(cs))

-----------------------------------------------------------------------------
(* The operator's terminal *)

LineY == <<"y", "\n">>
LineUpperY == <<"Y", "\n">>
LineEmpty == <<"\n">>
LineN == <<"n", "\n">>
LineQ == <<"q", "\n">>

\* read_line appends nothing and returns Ok(0) at end of input
EndOfInput == <<>>

Lines == {LineY, LineUpperY, LineEmpty, LineN, LineQ}

\* the lines that, entered alone, are "y", "Y" or "" once trimmed
AcceptLines == {LineY, LineUpperY, LineEmpty}

\* main.rs 116-117: the trimmed buffer is one of "y" | "Y" | ""
Accepts(buf) == trim(buf) \in {<<"y">>, <<"Y">>, <<>>}

\* prune_revision without the test of the exit status
prune_revision_unchecked(exit) == Ok("unit")

\* prune_revision: Err unless `hg prune` could be run and exited with success
prune_revision(exit) == IF exit = "success" THEN Ok("unit") ELSE Err("prune")

PruneExits == {"success", "nonzero", "io"}

-----------------------------------------------------------------------------
(* main() *)

Init ==
    /\ pc = "start"
    /\ err = "none"
    /\ pull = "none"
    /\ revs = <<>>
    /\ i = 1
    /\ details = Unset
    /\ comments = Unset
    /\ response = Unset
    /\ prunable = <<>>
    /\ cur = 1
    /\ buffer = <<>>
    /\ lastLine = None
    /\ pruneCalls = <<>>
    /\ out = {}

\* what spawning `hg pull` can come to, and how a running pull can end
PullSpawned == {"running", "spawn_err"}
PullEnded == {"ok", "failed", "failed_nonutf8"}

\* main.rs 29-36: Command::output() spawns `hg pull` at once and returns the
\* future of its output; a failed spawn is kept in the future
StartPull ==
    /\ pc = "start"
    /\ pull' \in PullSpawned
    /\ pc' = "log"
    /\ UNCHANGED <<err, revs, i, details, comments, response, prunable, cur,
                   buffer, lastLine, pruneCalls, out>>

\* the background `hg pull` ends, whatever main() is doing
PullExit ==
    /\ pull = "running"
    /\ pull' \in PullEnded
    /\ UNCHANGED <<pc, err, revs, i, details, comments, response, prunable,
                   cur, buffer, lastLine, pruneCalls, out>>

\* main.rs 38-58: `hg log` could not be run, failed, or printed something
\* that is not the expected JSON
LogFails ==
    /\ pc = "log"
    /\ pc' = "error"
    /\ err' = "log"
    /\ UNCHANGED <<pull, revs, i, details, comments, response, prunable, cur,
                   buffer, lastLine, pruneCalls, out>>

\* Log without the test for an empty list
LogNoEmptyTest(descs) ==
    /\ pc = "log"
    /\ \E ds \in RevLists(descs) : revs' = MkRevs(ds)
    /\ pc' = "resolve"
    /\ UNCHANGED <<err, pull, i, details, comments, response, prunable, cur,
                   buffer, lastLine, pruneCalls, out>>

\* main.rs 38-63: the draft revisions are listed
Log(descs) ==
    /\ pc = "log"
    /\ \E ds \in RevLists(descs) :
        /\ revs' = MkRevs(ds)
        /\ IF ds = <<>>
           THEN /\ out' = out \cup {"No draft revisions found"}
                /\ pc' = "done"
           ELSE /\ out' = out
                /\ pc' = "resolve"
    /\ UNCHANGED <<err, pull, i, details, comments, response, prunable, cur,
                   buffer, lastLine, pruneCalls>>

\* main.rs 68-69: the head of `for rev in &revs` and `if let Some(bug)`
ForRev ==
    /\ pc = "resolve"
    /\ details' = Unset
    /\ comments' = Unset
    /\ response' = Unset
    /\ IF i > Len(revs)
       THEN pc' = "await_pull" /\ i' = i
       ELSE IF bug(revs[i]).some
            THEN pc' = "details" /\ i' = i
            ELSE pc' = "resolve" /\ i' = i + 1
    /\ UNCHANGED <<err, pull, revs, prunable, cur, buffer, lastLine,
                   pruneCalls, out>>

\* FetchDetails with a failed fetch treated as "not a candidate"
FetchDetailsSoftSkip(resps) ==
    /\ pc = "details"
    /\ \E resp \in resps :
        /\ response' = [of |-> "details", id |-> bug(revs[i]).val, reply |-> resp]
        /\ details' = ApiBug_details(resp)
        /\ IF details'.ok
           THEN pc' = "comments" /\ i' = i
           ELSE pc' = "resolve" /\ i' = i + 1
    /\ UNCHANGED <<err, pull, revs, comments, prunable, cur, buffer, lastLine,
                   pruneCalls, out>>

\* main.rs 71-72: details().await? and the test of the status
FetchDetails(resps) ==
    /\ pc = "details"
    /\ \E resp \in resps :
        /\ response' = [of |-> "details", id |-> bug(revs[i]).val, reply |-> resp]
        /\ details' = ApiBug_details(resp)
        /\ IF ~details'.ok
           THEN pc' = "error" /\ err' = "details" /\ i' = i
           ELSE IF details'.val.status = "RESOLVED"
                   \/ details'.val.status = "VERIFIED"
                THEN pc' = "comments" /\ err' = err /\ i' = i
                ELSE pc' = "resolve" /\ err' = err /\ i' = i + 1
    /\ UNCHANGED <<pull, revs, comments, prunable, cur, buffer, lastLine,
                   pruneCalls, out>>

\* FetchComments that puts the new pairs in front of the earlier ones
FetchCommentsPrepend(texts) ==
    /\ pc = "comments"
    /\ \E resp \in CommentsResponses(bug(revs[i]).val, texts) :
        /\ response' = [of |-> "comments", id |-> bug(revs[i]).val, reply |-> resp]
        /\ comments' = ApiBug_comments(bug(revs[i]).val, resp)
        /\ IF ~comments'.ok
           THEN /\ pc' = "error" /\ err' = "comments" /\ i' = i
                /\ prunable' = prunable
           ELSE /\ pc' = "resolve" /\ err' = err /\ i' = i + 1
                /\ prunable' = ScanComments(revs[i], comments'.val) \o prunable
    /\ UNCHANGED <<pull, revs, details, cur, buffer, lastLine, pruneCalls, out>>

\* main.rs 73-84: comments().await? and the scan of the comments
FetchComments(texts) ==
    /\ pc = "comments"
    /\ \E resp \in CommentsResponses(bug(revs[i]).val, texts) :
        /\ response' = [of |-> "comments", id |-> bug(revs[i]).val, reply |-> resp]
        /\ comments' = ApiBug_comments(bug(revs[i]).val, resp)
        /\ IF ~comments'.ok
           THEN /\ pc' = "error" /\ err' = "comments" /\ i' = i
                /\ prunable' = prunable
           ELSE /\ pc' = "resolve" /\ err' = err /\ i' = i + 1
                /\ prunable' = prunable \o ScanComments(revs[i], comments'.val)
    /\ UNCHANGED <<pull, revs, details, cur, buffer, lastLine, pruneCalls,
                   out>>

\* AwaitPull that does not wait: a pull still running is taken as finished
AwaitPullNoWait ==
    /\ pc = "await_pull"
    /\ pull # "none"
    /\ IF pull = "failed_nonutf8"
       THEN pc' = "error" /\ err' = "pull" /\ out' = out
       ELSE /\ pc' = "confirm"
            /\ err' = err
            /\ out' = IF pull \in {"ok", "running"} THEN out
                      ELSE out \cup {"Warning, pull failed"}
    /\ UNCHANGED <<pull, revs, i, details, comments, response, prunable, cur,
                   buffer, lastLine, pruneCalls>>

\* main.rs 89-99: pull_future.await and the warning; String::from_utf8(..)?
\* ends main() when a failed pull printed bytes that are not UTF-8
AwaitPull ==
    /\ pc = "await_pull"
    /\ pull \in {"spawn_err", "ok", "failed", "failed_nonutf8"}
    /\ IF pull = "failed_nonutf8"
       THEN pc' = "error" /\ err' = "pull" /\ out' = out
       ELSE /\ pc' = "confirm"
            /\ err' = err
            /\ out' = IF pull = "ok" THEN out
                      ELSE out \cup {"Warning, pull failed"}
    /\ UNCHANGED <<pull, revs, i, details, comments, response, prunable, cur,
                   buffer, lastLine, pruneCalls>>

\* main.rs 105-111: the head of `for (local, remote) in prunable`
ForCandidate ==
    /\ pc = "confirm"
    /\ IF cur > Len(prunable)
       THEN pc' = "done" /\ out' = out
       ELSE pc' = "prompt" /\ out' = out \cup {"prune to"}
    /\ UNCHANGED <<err, pull, revs, i, details, comments, response, prunable,
                   cur, buffer, lastLine, pruneCalls>>

\* ReadLine that spawns `hg prune` and goes on without waiting for it
ReadLineNoAwait(line) ==
    /\ pc = "prompt"
    /\ Len(buffer) + Len(line) <= MaxBuf
    /\ buffer' = buffer \o line
    /\ lastLine' = Some(line)
    /\ IF Accepts(buffer')
       THEN /\ pc' = "confirm"
            /\ cur' = cur + 1
            /\ pruneCalls' = Append(pruneCalls,
                                    [rev |-> prunable[cur].local.node,
                                     succ |-> prunable[cur].remote,
                                     exit |-> "running"])
       ELSE /\ pc' = "prompt"
            /\ cur' = cur
            /\ pruneCalls' = pruneCalls
    /\ UNCHANGED <<err, pull, revs, i, details, comments, response, prunable,
                   out>>

\* main.rs 113-122: one turn of the inner loop with the line `line` (or the
\* end of input): the line is appended to the buffer, and the trimmed buffer
\* decides between spawning `hg prune` and prompting again
ReadLine(line) ==
    /\ pc = "prompt"
    /\ Len(buffer) + Len(line) <= MaxBuf
    /\ buffer' = buffer \o line
    /\ lastLine' = Some(line)
    /\ IF Accepts(buffer')
       THEN /\ pc' = "prune"
            /\ pruneCalls' = Append(pruneCalls,
                                    [rev |-> prunable[cur].local.node,
                                     succ |-> prunable[cur].remote,
                                     exit |-> "running"])
       ELSE /\ pc' = "prompt"
            /\ pruneCalls' = pruneCalls
    /\ UNCHANGED <<err, pull, revs, i, details, comments, response, prunable,
                   cur, out>>

\* main.rs 114-115: flush or read_line returns an I/O error
ReadFails ==
    /\ pc = "prompt"
    /\ pc' = "error"
    /\ err' = "stdin"
    /\ UNCHANGED <<pull, revs, i, details, comments, response, prunable, cur,
                   buffer, lastLine, pruneCalls, out>>

\* main.rs 118-119 and 129-149: `hg prune` ends; `?` ends main() on Err,
\* otherwise `break` moves to the next pair
PruneExit ==
    /\ pc = "prune"
    /\ \E exit \in PruneExits :
        /\ pruneCalls' = [pruneCalls EXCEPT ![Len(pruneCalls)].exit = exit]
        /\ IF prune_revision(exit).ok
           THEN pc' = "confirm" /\ err' = err /\ cur' = cur + 1
           ELSE pc' = "error" /\ err' = "prune" /\ cur' = cur
    /\ UNCHANGED <<pull, revs, i, details, comments, response, prunable,
                   buffer, lastLine, out>>

\* one step of the program or of its surroundings, where the listing draws
\* descriptions from descs, the tracker answers details with one of dresps
\* and discussions over texts, and the operator's lines come from lines
NextEnv(descs, dresps, texts, lines) ==
    \/ StartPull
    \/ PullExit
    \/ LogFails
    \/ Log(descs)
    \/ ForRev
    \/ FetchDetails(dresps)
    \/ FetchComments(texts)
    \/ AwaitPull
    \/ ForCandidate
    \/ \E line \in lines : ReadLine(line)
    \/ ReadFails
    \/ PruneExit

\* The operator at the terminal: every line and the end of input, over a
\* tracker that answers each bug with VERIFIED (or not at all) and with
\* discussions of landing comments and other comments.
OperatorDescs == {DescBug42, DescNoBug}
OperatorDetails ==
    {[kind |-> "transport"], [kind |-> "body", bugs |-> <<"VERIFIED">>]}
OperatorTexts == {TextLandA, TextOther}
OperatorLines == Lines \cup {EndOfInput}

Next ==
    NextEnv(OperatorDescs, OperatorDetails, OperatorTexts, OperatorLines)

Spec == Init /\ [][Next]_vars

\* The tracker: every description and every response, discussions of
\* landing comments with a hex and a non-hex hash and of other comments,
\* with the program's input closed (every read_line is at the end of input).
TrackerTexts == {TextLandA, TextLandNonHex, TextOther}
TrackerLines == {EndOfInput}

NextTracker ==
    NextEnv(Descs, DetailsResponses, TrackerTexts, TrackerLines)

SpecTracker == Init /\ [][NextTracker]_vars

\* Landings: a tracker that answers VERIFIED and holds discussions with two
\* different landing URLs, a cut-off one and another comment, for subjects
\* that write the bug number with and without a colon; the operator enters
\* empty lines or the input is at its end.
LandingDescs == {DescBug42, DescBug42Colon}
LandingDetails == {[kind |-> "body", bugs |-> <<"VERIFIED">>]}
LandingTexts == {TextLandCafe, TextLandB, TextLandTruncated, TextOther}
LandingLines == {LineEmpty, EndOfInput}

NextLanding ==
    NextEnv(LandingDescs, LandingDetails, LandingTexts, LandingLines)

SpecLanding == Init /\ [][NextLanding]_vars

-----------------------------------------------------------------------------
(* Claims about the confirmation loop, checked under Spec *)

\* C1: a line "n" at a candidate's prompt is a reject: no `hg prune` is
\* spawned for that candidate and the loop moves on to the next candidate.
C1_NegativeRejects ==
    [][ReadLine(LineN) =>
        (pruneCalls' = pruneCalls /\ cur' = cur + 1 /\ pc' = "confirm")]_vars

\* C2: at every candidate's prompt a line "y", "Y" or an empty line is an
\* accept: `hg prune` is spawned once, with the revision's node as --rev and
\* the candidate's hash as --succ, and after it the loop moves on.
C2_AffirmativeRetires ==
    [][/\ \A line \in AcceptLines :
            ReadLine(line) =>
                /\ pc' = "prune"
                /\ pruneCalls' = Append(pruneCalls,
                                        [rev |-> prunable[cur].local.node,
                                         succ |-> prunable[cur].remote,
                                         exit |-> "running"])
       /\ (pc = "prune" /\ pc' = "confirm") =>
            (cur' = cur + 1 /\ Len(pruneCalls') = Len(pruneCalls))]_vars

\* C3: an unrecognized line prompts again for the same candidate and changes
\* nothing: the line entered next is interpreted on its own, so "y" (or "Y",
\* or an empty line) after "q" accepts and any other line does not.
C3_UnrecognizedReprompts ==
    [][/\ ReadLine(LineQ) =>
            (pc' = "prompt" /\ cur' = cur /\ pruneCalls' = pruneCalls)
       /\ \A line \in Lines :
            (lastLine = Some(LineQ) /\ ReadLine(line)) =>
                (pc' = "prune" <=> line \in AcceptLines)]_vars

\* C4: the loop handles each candidate once, so the number of decision lines
\* ("y", "Y", empty, "n") it has consumed never exceeds the candidate count.
C4_DecisionsBounded ==
    LET parts == split(buffer, "\n")
        entered == SubSeq(parts, 1, Len(parts) - 1)
        decisions == {k \in 1..Len(entered) :
                        entered[k] \in {<<"y">>, <<"Y">>, <<>>, <<"n">>}}
    IN  Cardinality(decisions) <= Len(prunable)

\* C5: `hg prune` is spawned only when the operator has just entered an
\* accepting line ("y", "Y" or an empty line); a read at the end of input
\* is no confirmation.
C5_RetirementConfirmed ==
    pc = "prune" => lastLine \in {Some(LineY), Some(LineUpperY), Some(LineEmpty)}

\* C9: a failed `hg prune` ends the run with an error at once: it is the
\* last command spawned, the loop is still on its candidate, and every
\* earlier `hg prune` succeeded and is left as it is.
C9_RetirementFailureFatal ==
    \A k \in 1..Len(pruneCalls) :
        pruneCalls[k].exit \notin {"running", "success"} =>
            /\ k = Len(pruneCalls)
            /\ pc = "error"
            /\ err = "prune"
            /\ cur <= Len(prunable)
            /\ pruneCalls[k].rev = prunable[cur].local.node
            /\ pruneCalls[k].succ = prunable[cur].remote
            /\ \A j \in 1..(k - 1) : pruneCalls[j].exit = "success"

\* a run where the second `hg prune` fails after the first succeeded, with a
\* third candidate left that is never asked about
C9_Witness ==
    /\ pc = "error"
    /\ err = "prune"
    /\ Len(pruneCalls) = 2
    /\ pruneCalls[1].exit = "success"
    /\ pruneCalls[2].exit = "nonzero"
    /\ Len(prunable) >= 3

-----------------------------------------------------------------------------
(* Claims about the resolver: C6 is checked under SpecLanding, C7 and C8   *)
(* under SpecTracker                                                       *)

\* C6: when more than one comment of the discussion starts with the landing
\* prefix, the candidate for the revision carries the hash of the most
\* recent (last) of them.
C6_MostRecentLanding ==
    (pc = "resolve" /\ comments # Unset /\ comments.ok) =>
        LET cs == comments.val
            landings == {k \in 1..Len(cs) :
                            starts_with(cs[k].raw_text, LandingPrefix)}
            latest == CHOOSE k \in landings : \A m \in landings : m <= k
        IN  Cardinality(landings) > 1 =>
                \A k \in 1..Len(prunable) :
                    prunable[k].local = revs[i - 1] =>
                        prunable[k].remote = Last(split(cs[latest].raw_text, "/"))

\* C7: when the tracker reports a status other than RESOLVED and VERIFIED,
\* the revision is skipped without an error: no candidate for it, and the
\* resolver goes on to the next revision.
C7_OpenStatusSkipped ==
    (/\ response # Unset
     /\ response.of = "details"
     /\ response.reply.kind = "body"
     /\ response.reply.bugs # <<>>
     /\ Last(response.reply.bugs) \notin {"RESOLVED", "VERIFIED"}) =>
        /\ pc = "resolve"
        /\ err = "none"
        /\ \A k \in 1..Len(prunable) : prunable[k].local # revs[i - 1]

\* C8: a fetch of details or comments that fails (no response, a body that
\* cannot be parsed, or the requested bug missing from the body) ends the
\* run with an error at once: the resolver is still on that revision, no
\* candidate has been shown and no `hg prune` has been spawned.
C8_FetchFailureFatal ==
    (/\ response # Unset
     /\ \/ response.reply.kind \in {"transport", "malformed"}
        \/ response.of = "details" /\ response.reply.bugs = <<>>
        \/ response.of = "comments"
            /\ response.id \notin DOMAIN response.reply.bugs) =>
        /\ pc = "error"
        /\ err = response.of
        /\ i <= Len(revs)
        /\ bug(revs[i]) = Some(response.id)
        /\ "prune to" \notin out
        /\ lastLine = None
        /\ pruneCalls = <<>>

\* the comments of the second revision's bug are missing from the reply
\* after the first revision has given a candidate
C8_Witness ==
    /\ pc = "error"
    /\ err = "comments"
    /\ i = 2
    /\ prunable # <<>>
    /\ response.reply.kind = "body"
    /\ response.id \notin DOMAIN response.reply.bugs


-----------------------------------------------------------------------------
(* Claims about the orchestration, checked under Spec *)

\* C11: a failed pull never ends the run: whether `hg pull` could not be
\* started or exited with a failure, main() does not return an error because
\* of it, and the confirmation loop is entered with the warning printed.
C11_SyncFailureNotFatal ==
    /\ err # "pull"
    /\ (pc \in {"confirm", "prompt", "prune"}
        /\ pull \in {"spawn_err", "failed", "failed_nonutf8"})
        => "Warning, pull failed" \in out


-----------------------------------------------------------------------------
(* Further claims about the resolver, checked under SpecTracker *)

\* C12: a revision whose subject (the first line of its description) does
\* not begin with the word "bug" in any case, or has no second word, gets no
\* request to the tracker and no candidate: a request is pending or answered
\* only for a revision whose subject has both words, it asks about the
\* second word, and every candidate belongs to such a revision.
C12_NoIssueNoCandidate ==
    LET Words(rev) == split_whitespace(split(rev.desc, "\n")[1])
        Refers(rev) == /\ Len(Words(rev)) >= 2
                       /\ to_lowercase(Words(rev)[1]) = <<"b", "u", "g">>
        asked == IF pc = "resolve" THEN i - 1 ELSE i
    IN  /\ \A k \in 1..Len(prunable) : Refers(prunable[k].local)
        /\ pc \in {"details", "comments"} => Refers(revs[i])
        /\ response # Unset =>
            (Refers(revs[asked]) /\ response.id = Words(revs[asked])[2])

\* the resolver has passed a first revision "BUG" (no second word) without a
\* candidate and has found one for the second revision
C12_Witness ==
    /\ pc = "await_pull"
    /\ Len(revs) = 2
    /\ revs[1].desc = DescBugOnly
    /\ prunable # <<>>
    /\ \A k \in 1..Len(prunable) : prunable[k].local = revs[2]


\* C13: a landing comment whose text after the last '/' has a character that
\* is not a hex digit gives no candidate: every candidate's hash has hex
\* digits only, and the candidates of the revision just resolved are each
\* the text after the last '/' of one of its comments that start with the
\* landing prefix.
C13_HashIsHex ==
    LET Hex == {"0", "1", "2", "3", "4", "5", "6", "7", "8", "9",
                "a", "b", "c", "d", "e", "f", "A", "B", "C", "D", "E", "F"}
        IsSegmentOf(h, text) ==
            /\ Len(h) < Len(text)
            /\ text[Len(text) - Len(h)] = "/"
            /\ SubSeq(text, Len(text) - Len(h) + 1, Len(text)) = h
            /\ \A k \in 1..Len(h) : h[k] # "/"
    IN  /\ \A k \in 1..Len(prunable) :
              \A n \in 1..Len(prunable[k].remote) :
                  prunable[k].remote[n] \in Hex
        /\ (pc = "resolve" /\ comments # Unset /\ comments.ok) =>
              \A k \in 1..Len(prunable) :
                  prunable[k].local = revs[i - 1] =>
                      \E m \in 1..Len(comments.val) :
                          /\ Len(comments.val[m].raw_text) >= Len(LandingPrefix)
                          /\ SubSeq(comments.val[m].raw_text, 1,
                                    Len(LandingPrefix)) = LandingPrefix
                          /\ IsSegmentOf(prunable[k].remote,
                                         comments.val[m].raw_text)

\* a discussion with a landing comment ".../rev/zz" and a landing comment
\* ".../rev/a1" has given the one candidate a1
C13_Witness ==
    /\ pc = "resolve"
    /\ comments # Unset
    /\ comments.ok
    /\ \E m \in 1..Len(comments.val) :
          comments.val[m].raw_text = TextLandNonHex
    /\ Len(prunable) = 1
    /\ prunable[1].remote = <<"a", "1">>


-----------------------------------------------------------------------------
(* Claims about landings, checked under SpecLanding *)

\* C14: for a revision with the subject "Bug 42: fix thing" the resolver
\* asks the tracker about bug 42; when the tracker's discussion of bug 42
\* has the comment ".../rev/deadbeefcafe" the candidate (revision,
\* deadbeefcafe) is produced; and an empty line at a candidate's prompt
\* spawns `hg prune` with the revision's node and the candidate's hash.
C14_EndToEnd ==
    LET asked == IF pc = "resolve" THEN i - 1 ELSE i
        cafe == <<"d", "e", "a", "d", "b", "e", "e", "f", "c", "a", "f", "e">>
    IN  /\ (response # Unset /\ revs[asked].desc = DescBug42Colon) =>
              response.id = <<"4", "2">>
        /\ (/\ response # Unset
            /\ response.of = "comments"
            /\ response.reply.kind = "body"
            /\ <<"4", "2">> \in DOMAIN response.reply.bugs
            /\ \E m \in 1..Len(response.reply.bugs[<<"4", "2">>]) :
                  response.reply.bugs[<<"4", "2">>][m].raw_text = TextLandCafe) =>
              /\ pc = "resolve"
              /\ \E k \in 1..Len(prunable) :
                    prunable[k] = [local |-> revs[i - 1], remote |-> cafe]
        /\ (pc = "prune" /\ lastLine = Some(LineEmpty)) =>
              /\ pruneCalls[Len(pruneCalls)].rev = prunable[cur].local.node
              /\ pruneCalls[Len(pruneCalls)].succ = prunable[cur].remote

\* C20: every candidate carries a non-empty hash, so `hg prune` is never
\* spawned with an empty --succ: a landing URL cut off after its last '/'
\* gives no candidate.
C20_HashNotEmpty ==
    /\ \A k \in 1..Len(prunable) : prunable[k].remote # <<>>
    /\ \A k \in 1..Len(pruneCalls) : pruneCalls[k].succ # <<>>


-----------------------------------------------------------------------------
(* Further claims about the orchestration and the loop, checked under Spec *)

\* C15: when the listing returns no draft revision, main() returns Ok after
\* printing "No draft revisions found": no request has gone to the tracker,
\* no candidate has been shown, nothing has been read and no `hg prune` has
\* been spawned.
C15_NoDrafts ==
    (pc \notin {"start", "log"} /\ err # "log" /\ revs = <<>>) =>
        /\ pc = "done"
        /\ err = "none"
        /\ "No draft revisions found" \in out
        /\ response = Unset
        /\ details = Unset
        /\ comments = Unset
        /\ prunable = <<>>
        /\ "prune to" \notin out
        /\ lastLine = None
        /\ pruneCalls = <<>>

\* the run has ended on an empty listing
C15_Witness ==
    /\ pc = "done"
    /\ revs = <<>>
    /\ "No draft revisions found" \in out

\* C16: when there are draft revisions but the resolver finds no candidate,
\* the run ends successfully having printed "No prunable revisions found".
C16_NoPrunableSummary ==
    (pc = "done" /\ revs # <<>> /\ prunable = <<>>) =>
        /\ err = "none"
        /\ "No prunable revisions found" \in out

\* C17: the candidates stand in the order of the listing, and they are
\* prompted (and, once accepted, pruned) in that order: the k-th `hg prune`
\* is for the k-th candidate, and the prompt is at the candidate after the
\* ones already dealt with.
C17_ListingOrder ==
    /\ \A j \in 1..Len(prunable) : \A k \in j..Len(prunable) :
          prunable[j].local.node <= prunable[k].local.node
    /\ \A k \in 1..Len(pruneCalls) :
          /\ k <= Len(prunable)
          /\ pruneCalls[k].rev = prunable[k].local.node
          /\ pruneCalls[k].succ = prunable[k].remote
    /\ pc = "prompt" => Len(pruneCalls) = cur - 1
    /\ pc = "prune" => Len(pruneCalls) = cur

\* the candidate of the first revision was pruned, then that of the second
C17_Witness ==
    /\ Len(pruneCalls) = 2
    /\ pruneCalls[1].rev = 1
    /\ pruneCalls[2].rev = 2
    /\ pruneCalls[2].exit = "success"

\* C18: the confirmation loop is sequential: at most one `hg prune` is
\* running, it is the one spawned last and main() is waiting for it, and no
\* prompt is shown while one is running.
C18_OneRetirementAtATime ==
    /\ \A k \in 1..Len(pruneCalls) :
          pruneCalls[k].exit = "running" => (k = Len(pruneCalls) /\ pc = "prune")
    /\ pc = "prune" =>
          (pruneCalls # <<>> /\ pruneCalls[Len(pruneCalls)].exit = "running")
    /\ pc \in {"confirm", "prompt"} =>
          \A k \in 1..Len(pruneCalls) : pruneCalls[k].exit = "success"

\* the second candidate is being prompted after the first `hg prune` ended
C18_Witness ==
    /\ pc = "prompt"
    /\ cur = 2
    /\ Len(pruneCalls) = 1
    /\ pruneCalls[1].exit = "success"


-----------------------------------------------------------------------------
(* A further claim about the whole run, checked under SpecLanding *)

\* C19: in one run `hg prune` is spawned at most once for a revision: no two
\* of the commands name the same node (with the same or another successor).
C19_RetiredAtMostOnce ==
    \A j \in 1..Len(pruneCalls) : \A k \in 1..Len(pruneCalls) :
        j # k => pruneCalls[j].rev # pruneCalls[k].rev

====
